---- MODULE Spec2Model ----
(***************************************************************************)
(* The paginated-fetch engine of datadis-api: BaseStream (src/src/base.py), *)
(* the concrete streams Supplies and Comsumption (src/src/streams.py) and   *)
(* DatadisAuthenticator (src/src/authenticator.py), driven by a consumer    *)
(* that pulls records from Comsumption.read_records one at a time.          *)
(*                                                                         *)
(* Python generators are lazy: the engine runs only while the consumer is   *)
(* blocked in next() (demand = TRUE) and suspends at every yield.           *)
(***************************************************************************)
EXTENDS Integers, Sequences, FiniteSets, TLC

(***************************************************************************)
(* Bounds of the model.                                                    *)
(***************************************************************************)
\* records in one response body
MaxRecs == 2
\* logical requests (_fetch_next_page calls) in one run
MaxFetches == 4
\* retryable responses the transport injects in one run of Spec
MaxFaults == 1
\* logical requests of a run in which every request may use up its retries
MaxFetchesBudget == 2
\* page fetches of a run that is handed a stream_state
MaxFetchesState == 4
\* logical requests of an invocation that is followed by a second one
MaxFetchesAgain == 3
\* the longest list and the most keys of a mapping in an error body
MaxLen == 2
MaxKeys == 2

(***************************************************************************)
(* Program constants.                                                      *)
(***************************************************************************)
\* _send_request: max_tries = 5
MaxTriesArg == 5
\* _send_request: max_tries = max(0, max_tries) + 1
MaxTries == (IF MaxTriesArg > 0 THEN MaxTriesArg ELSE 0) + 1

\* the body-bearing methods as the docstrings name them
BodyMethodsWithoutGet == {"POST", "PUT", "PATCH"}
BODY_REQUEST_METHODS == {"GET", "POST", "PUT", "PATCH"}

Streams == {"parent", "child"}

(***************************************************************************)
(* Input domains: what the overridable hooks and the two servers may       *)
(* return.                                                                 *)
(***************************************************************************)
\* http_method of a stream ("GET" unless overridden)
Methods == {"GET", "POST", "PUT", "PATCH", "DELETE", "post"}
\* request_body_json / request_body_data: None, an empty value, a non-empty one
BodyVals == {"None", "empty", "nonempty"}
\* backoff_time: None, or a number of seconds
BackoffTimes == {-1, 0, 3}
NoBackoff == -1
\* status codes of the resource endpoint
Statuses == {103, 200, 301, 400, 429, 499, 500, 599, 600}
\* status codes of the credential-exchange endpoint
AuthStatuses == {200, 201, 401, 500}
\* next page tokens: None, an empty mapping, a non-empty mapping
PageTokens == {"None", "Empty", "A"}

EmptyMap == [k \in {} |-> ""]

\* request_headers of a stream ({} unless overridden)
ResourceHeaders ==
    { EmptyMap,
      [k \in {"Accept"} |-> "application/json"],
      [k \in {"Accept", "Authorization"} |->
          IF k = "Accept" THEN "application/json" ELSE "Basic resource"] }

(***************************************************************************)
(* Python truthiness of the modelled values.                               *)
(***************************************************************************)
TruthyBody(b) == b = "nonempty"
\* a token test that takes only None for "no token"
TruthyTokenIsNotNone(t) == t # "None"
TruthyToken(t) == t = "A"
TruthyBackoff(b) == b # NoBackoff /\ b # 0

(***************************************************************************)
(* JSON values: <<"str", s>>, <<"num", n>>, <<"null">>,                     *)
(* <<"list", <<v1, ..>>>>, <<"dict", [key |-> v]>>.                         *)
(***************************************************************************)
JStr(s) == <<"str", s>>
JNum(n) == <<"num", n>>
JNull == <<"null">>
JList(l) == <<"list", l>>
JDict(d) == <<"dict", d>>

\* Optional[str]
Nothing == <<FALSE, "">>
Just(s) == <<TRUE, s>>

TruthyJson(v) ==
    CASE v[1] = "str" -> v[2] # ""
      [] v[1] = "num" -> v[2] # 0
      [] v[1] = "list" -> Len(v[2]) > 0
      [] v[1] = "dict" -> DOMAIN v[2] # {}
      [] OTHER -> FALSE

\* dict.get(key): the value, or None
DictGet(d, key) == IF key \in DOMAIN d THEN d[key] ELSE JNull

ErrorKeys == <<"message", "messages", "error", "errors", "failures", "failure", "detail">>

\* a chain that stops at the first key that is present
RECURSIVE OrChainFirstPresent(_, _)
OrChainFirstPresent(d, i) ==
    IF i = Len(ErrorKeys) \/ ErrorKeys[i] \in DOMAIN d
    THEN DictGet(d, ErrorKeys[i])
    ELSE OrChainFirstPresent(d, i + 1)

\* a or b or ... : the first truthy operand, else the last one
RECURSIVE OrChain(_, _)
OrChain(d, i) ==
    IF i = Len(ErrorKeys) \/ TruthyJson(DictGet(d, ErrorKeys[i]))
    THEN DictGet(d, ErrorKeys[i])
    ELSE OrChain(d, i + 1)

\* ", ".join(strings)
RECURSIVE Join(_)
Join(strings) ==
    IF Len(strings) = 0 THEN ""
    ELSE IF Len(strings) = 1 THEN strings[1]
    ELSE strings[1] \o ", " \o Join(Tail(strings))

\* ", ".join(v for v in errors_in_value if v is not None)
JoinNotNone(errors_in_value) ==
    LET kept == SelectSeq(errors_in_value, LAMBDA v : v[1])
    IN  Join([i \in 1..Len(kept) |-> kept[i][2]])

RECURSIVE TryGetError(_)
TryGetError(value) ==
    CASE value[1] = "str" -> Just(value[2])
      [] value[1] = "list" ->
            Just(JoinNotNone([i \in 1..Len(value[2]) |-> TryGetError(value[2][i])]))
      [] value[1] = "dict" -> TryGetError(OrChain(value[2], 1))
      [] OTHER -> Nothing

\* Response bodies of failed requests; 0 stands for a body that is not JSON.
ErrBodies ==
    << JDict([k \in {"error"} |-> JDict([j \in {"message"} |-> JStr("bad date")])]),
       JDict([k \in {"code"} |-> JNum(7)]) >>
ErrBodyIds == 0..Len(ErrBodies)

ParseResponseErrorMessage(body) ==
    IF body = 0 THEN Nothing ELSE TryGetError(ErrBodies[body])

\* a body that is not JSON
NotJson == <<"text">>
\* no response yet
NoBody == <<"none">>

\* parse_response_error_message on a body given as a value: response.json()
\* raises JSONDecodeError on a body that is not JSON
ParseErrorBody(body) ==
    IF body[1] = "text" THEN Nothing ELSE TryGetError(body)

\* The bodies parse_response_error_message is run on: plain values, lists and
\* mappings of plain values, a mapping of one key or a list of one element
\* around a list or a one-key mapping of plain values, and a body that is not
\* JSON.
BodyKeys == {"message", "messages", "error", "errors", "failures", "failure", "detail", "code"}
PlainValues ==
    {JStr(""), JStr("a"), JStr("b"), JNum(0), JNum(7), JNull, JList(<<>>), JDict(<<>>)}
ListsOf(V, n) == {JList(l) : l \in UNION {[1..k -> V] : k \in 0..n}}
DictsOf(V, n) ==
    {JDict(d) : d \in UNION {[K -> V] : K \in {S \in SUBSET BodyKeys : Cardinality(S) <= n}}}
FlatValues == PlainValues \cup ListsOf(PlainValues, MaxLen) \cup DictsOf(PlainValues, MaxKeys)
NestedValues == PlainValues \cup ListsOf(PlainValues, MaxLen) \cup DictsOf(PlainValues, 1)
Bodies == FlatValues \cup ListsOf(NestedValues, 1) \cup DictsOf(NestedValues, 1) \cup {NotJson}

(***************************************************************************)
(* Pure parts of the request builder and of the send step.                 *)
(***************************************************************************)
\* str.upper() on the method names of the model
Upper(m) == IF m = "post" THEN "POST" ELSE m

\* a merge in which the headers of the resource win
MergeHeadersResourceWins(request_headers, auth_header) ==
    [k \in DOMAIN request_headers \cup DOMAIN auth_header |->
        IF k \in DOMAIN request_headers THEN request_headers[k] ELSE auth_header[k]]

\* dict(request_headers, **auth_header)
MergeHeaders(request_headers, auth_header) ==
    [k \in DOMAIN request_headers \cup DOMAIN auth_header |->
        IF k \in DOMAIN auth_header THEN auth_header[k] ELSE request_headers[k]]

\* a classification that retries server errors only
ShouldRetryServerErrorsOnly(status) == 500 <= status /\ status < 600

ShouldRetry(status) == status = 429 \/ (500 <= status /\ status < 600)

\* requests.Response.raise_for_status raises for 4xx and 5xx
RaisesForStatus(status) == 400 <= status /\ status < 600

\* the message of the HTTPError of raise_for_status, as its parts:
\* "<status> Client Error: <reason> for url: <url>"; the reason phrase of the
\* status line, not anything of the body
HTTPErrorMessage(status, url) ==
    << ToString(status),
       IF status < 500 THEN " Client " ELSE " Server ",
       "Error: ", "None", " for url: ", url >>

\* DatadisAuthenticator.base_url
LoginUrl == "https://datadis.es/nikola-auth/tokens/login"

\* get_auth_header
AuthHeader(token) == [k \in {"Authorization"} |-> "Bearer " \o token]

\* urljoin(url_base, path) for the relative paths of the two streams
JoinUrl(url_base, path) == url_base \o path

UrlBase == "https://datadis.es/api-private/api/"

\* Supplies.path / Comsumption.path
Path(s) == IF s = "parent" THEN "get-supplies" ELSE "get-consumption-data"

NoRecord == [cups |-> "", distributorCode |-> "", pointType |-> 0]
\* stream_slice of a top-level stream (None)
NoSlice == [parent |-> NoRecord]

AuthorizedNif == "47841486Z"
StartDate == "2023/10"

\* BaseStream.request_params / Comsumption.request_params
RequestParams(s, slice) ==
    IF s = "parent"
    THEN [authorizedNif |-> AuthorizedNif]
    ELSE [authorizedNif |-> AuthorizedNif,
          cups |-> slice.parent.cups,
          distributorCode |-> slice.parent.distributorCode,
          startDate |-> StartDate,
          endDate |-> StartDate,
          measurementType |-> 0,
          pointType |-> slice.parent.pointType]

NoRequest == [method |-> "", url |-> "", headers |-> EmptyMap, params |-> EmptyMap,
              body |-> "none", raises |-> FALSE]

\* _create_prepared_request: the prepared request, or raises |-> TRUE for
\* RequestBodyException
CreatePreparedRequest(method, path, headers, params, json, data) ==
    LET conflict == Upper(method) \in BODY_REQUEST_METHODS
                      /\ TruthyBody(json) /\ TruthyBody(data)
        body == IF Upper(method) \notin BODY_REQUEST_METHODS THEN "none"
                ELSE IF TruthyBody(json) THEN "json"
                ELSE IF TruthyBody(data) THEN "data"
                ELSE "none"
    IN  IF conflict THEN [NoRequest EXCEPT !.raises = TRUE]
        ELSE [method |-> method, url |-> JoinUrl(UrlBase, path), headers |-> headers,
              params |-> params, body |-> body, raises |-> FALSE]

\* a send step that never raises for a status
SendOutcomeNeverRaises(status, backoff, raise_on_http_errors) ==
    IF ShouldRetry(status)
    THEN IF TruthyBackoff(backoff) THEN "UserDefinedBackoffException"
         ELSE "DefaultBackoffException"
    ELSE "return"

\* _send after session.send: what it does with a response
\*   "UserDefinedBackoffException", "DefaultBackoffException", "HTTPError", "return"
SendOutcome(status, backoff, raise_on_http_errors) ==
    IF ShouldRetry(status)
    THEN IF TruthyBackoff(backoff) THEN "UserDefinedBackoffException"
         ELSE "DefaultBackoffException"
    ELSE IF raise_on_http_errors /\ RaisesForStatus(status) THEN "HTTPError"
    ELSE "return"

\* user_defined_backoff_handler(max_tries, max_time): gives up on the exception
\* of its tier once it made max_tries calls or its time budget has run out
UserHandlerGivesUp(tries, expired) == tries = MaxTries \/ expired

\* default_backoff_handler(max_tries, max_time, factor): likewise
DefaultHandlerGivesUp(tries, expired) == tries = MaxTries \/ expired

\* str.strip() of a text given as its chunks, whitespace chunks being " " and "\n"
RECURSIVE LStrip(_)
LStrip(chunks) ==
    IF chunks # <<>> /\ Head(chunks) \in {" ", "\n"} THEN LStrip(Tail(chunks)) ELSE chunks
RECURSIVE RStrip(_)
RStrip(chunks) ==
    IF chunks # <<>> /\ chunks[Len(chunks)] \in {" ", "\n"}
    THEN RStrip(SubSeq(chunks, 1, Len(chunks) - 1)) ELSE chunks
RECURSIVE Concat(_)
Concat(chunks) == IF chunks = <<>> THEN "" ELSE Head(chunks) \o Concat(Tail(chunks))
\* a strip that leaves what follows the text
StripLeftOnly(chunks) == Concat(LStrip(chunks))
Strip(chunks) == Concat(RStrip(LStrip(chunks)))

\* the body texts the login endpoint may answer its n-th call with
AuthTexts(n) ==
    { <<"tok" \o ToString(n)>>, <<" ", "tok" \o ToString(n), "\n">> }

\* the i-th record of the body of the parent's response number serial
ParentRecord(serial, i) ==
    [cups |-> "ES" \o ToString(serial) \o "-" \o ToString(i),
     distributorCode |-> "D" \o ToString(i),
     pointType |-> serial]

\* the i-th record of the body of a child's response; held: the body itself
\* holds distributorCode and pointType
ChildRecord(serial, i, held) ==
    IF held
    THEN [measure |-> <<serial, i>>, distributorCode |-> "ZZ", pointType |-> 0]
    ELSE [measure |-> <<serial, i>>]

\* e[key] = value
Put(e, key, value) ==
    [k \in DOMAIN e \cup {key} |-> IF k = key THEN value ELSE e[k]]

\* a parse step that keeps the two fields when the body holds them
ParseChildKeepsBody(e, slice) ==
    LET d == IF "distributorCode" \in DOMAIN e THEN e
             ELSE Put(e, "distributorCode", slice.parent.distributorCode)
    IN  IF "pointType" \in DOMAIN d THEN d
        ELSE Put(d, "pointType", slice.parent.pointType)

\* Comsumption.parse_response, one record
ParseChild(e, slice) ==
    Put(Put(e, "distributorCode", slice.parent.distributorCode),
        "pointType", slice.parent.pointType)

(***************************************************************************)
(* State.                                                                  *)
(***************************************************************************)
VARIABLES
    hooks,                \* "default": the hooks of BaseStream as Supplies and Comsumption
                          \* inherit them; "overridden": a subclass overrides them
    token_rule,           \* per stream, whether next_page_token is overridden
    demand,               \* the consumer is blocked in next() on read_records
    status,               \* "running", "end" (StopIteration), "error" (an exception reached the consumer)
    err,                  \* the exception that reached the consumer
    out,                  \* the records the consumer has received
    run,                  \* the stream whose _read_pages is executing
    stream_slice,         \* Comsumption.read_records: the current slice
    parents,              \* the records the parent has yielded to stream_slices
    pos,                  \* per stream, the position of its _read_pages
    next_page_token,      \* per stream, _read_pages: next_page_token
    pagination_complete,  \* per stream, _read_pages: pagination_complete
    response,             \* per stream, the response whose records are being yielded
    cursor,               \* per stream, how many records of response have been yielded
    request_headers,      \* _fetch_next_page: request_headers
    auth_header,          \* _fetch_next_page: the result of get_auth_header
    build_in,             \* _fetch_next_page: http_method, json and data handed to the builder
    request,              \* _fetch_next_page: the prepared request
    tries_user,           \* calls of _send by the running user_defined_backoff_handler
    tries_default,        \* calls of the user handler by the running default_backoff_handler
    sent,                 \* the latest transport send: response status and what _send did
    net,                  \* network calls of the current _fetch_next_page
    authCalls,            \* calls of get_auth_header so far
    reqlog,               \* every logical request so far, in order
    faultsLeft,           \* retryable responses the transport may still inject
    limit,                \* logical requests the run may still start, counted from none
    state_arg,            \* the stream_state argument of the consumer's read_records call
    stream_state,         \* per stream, _read_pages: stream_state
    state_seen,           \* <<stream, hook, stream_state>> for every hook call so far
    replay,               \* the transport: "off" (free), "record", "replay", "diverged",
                          \* or "prompt" (so quick that max_time never runs out)
    script,               \* the answers the transport gave to the first invocation
    ptr,                  \* how many answers of script the second invocation has used
    first,                \* what the first invocation of read_records produced
    value,                \* parse_response_error_message: the body of the response
    message               \* parse_response_error_message: its result

vars == <<hooks, token_rule, demand, status, err, out, run, stream_slice, parents, pos,
          next_page_token, pagination_complete, response, cursor, request_headers,
          auth_header, build_in, request, tries_user, tries_default, sent, net,
          authCalls, reqlog, faultsLeft, limit, state_arg, stream_state, state_seen,
          replay, script, ptr, first, value, message>>

\* what the page fetch engine never writes
idle == <<limit, state_arg, first, value, message>>
\* the scripted transport
tape == <<replay, script, ptr>>
\* the state mapping and who was handed it
threaded == <<stream_state, state_seen>>

NoErr == [kind |-> "none", msg |-> <<>>, origin |-> "none"]
NoArgs == [method |-> "", json |-> "None", data |-> "None"]
NoResponse == [serial |-> 0, size |-> 0, token |-> "None", held |-> FALSE]
NoSend == [status |-> 0, backoff |-> NoBackoff, raise |-> TRUE, body |-> 0, outcome |-> "none"]
NoNet == [auth |-> 0, sends |-> 0]

\* stream_state: None, or a mapping
StateNone == <<"None">>
StateMap(m) == <<"map", m>>
\* the stream_state of a _read_pages that has not been called
Unbound == <<"unbound">>
\* the arguments a consumer may pass as stream_state
States == {StateNone, StateMap(EmptyMap), StateMap([date |-> "2023/09"])}

\* a driver that starts every cycle from an empty state
StateOrEmptyDropsState(s) == StateMap(EmptyMap)
\* _read_pages: stream_state or {}
StateOrEmpty(s) ==
    IF s = StateNone \/ s = StateMap(EmptyMap) THEN StateMap(EmptyMap) ELSE s

\* the hooks in hooksCalled are called with the stream_state of stream s
Seen(s, hooksCalled) == state_seen \cup {<<s, h, stream_state[s]>> : h \in hooksCalled}

\* the result of parse_response_error_message before it is called
Unset == <<FALSE, "unset">>
NoFirst == [out |-> <<>>, reqlog |-> <<>>, status |-> "none", err |-> NoErr]

\* The transport answers with choice. A recording transport notes the answer;
\* a replaying one gives the answer it noted for this call, and is off its
\* script once the engine asks for a call the script does not hold.
Scripted(choice) ==
    CASE replay = "record" ->
            /\ script' = Append(script, choice)
            /\ UNCHANGED <<replay, ptr>>
      [] replay = "replay" ->
            IF ptr < Len(script) /\ script[ptr + 1][1] = choice[1]
            THEN /\ script[ptr + 1] = choice
                 /\ ptr' = ptr + 1
                 /\ UNCHANGED <<replay, script>>
            ELSE /\ replay' = "diverged"
                 /\ UNCHANGED <<script, ptr>>
      [] OTHER -> UNCHANGED <<replay, script, ptr>>

Flag(b) == IF b THEN 1 ELSE 0
TokenNo(tk) == CASE tk = "None" -> 0 [] tk = "Empty" -> 1 [] OTHER -> 2

\* What the transport may answer. A scripted transport (one that records or
\* replays) answers from fewer statuses and bodies than a free one.
Free == replay = "off"
LoginStatuses == IF Free THEN AuthStatuses ELSE {200, 401}
LoginTexts(n) == IF Free THEN AuthTexts(n) ELSE {<<"tok" \o ToString(n)>>}
SendStatuses == IF Free THEN Statuses ELSE {200, 400, 500}
ErrorBodyIds == IF Free THEN ErrBodyIds ELSE {0}
HeldChoices(s) == IF Free /\ s = "child" THEN BOOLEAN ELSE {FALSE}
TokenChoices == IF Free THEN PageTokens ELSE {"None", "A"}
\* whether max_time (600 s) has run out when a handler looks at the clock
Expiries == IF replay = "prompt" THEN {FALSE} ELSE BOOLEAN

\* handlers made once for the stream, which go on counting
HandlersKept == UNCHANGED <<tries_user, tries_default>>
\* _send_request decorates _send anew on every call: the handlers of the next
\* logical request start counting from nothing
FreshHandlers == tries_user' = 0 /\ tries_default' = 0

\* what the hooks of the stream may return
HookMethods == IF hooks = "default" THEN {"GET"} ELSE Methods
HookBodies == IF hooks = "default" THEN {"None"} ELSE BodyVals
HookHeaders == IF hooks = "default" THEN {EmptyMap} ELSE ResourceHeaders
HookBackoffs == IF hooks = "default" THEN {NoBackoff} ELSE BackoffTimes
HookRaise == IF hooks = "default" THEN {TRUE} ELSE BOOLEAN

\* a next_page_token that always reads the token of the response
NextPageTokenOfResponse(s, resp) == resp.token
\* BaseStream.next_page_token (None) or an override reading the token of the response
NextPageToken(s, resp) == IF token_rule[s] = "default" THEN "None" ELSE resp.token

InitCommon ==
    /\ token_rule \in [Streams -> {"default", "from_response"}]
    /\ demand = FALSE
    /\ status = "running"
    /\ err = NoErr
    /\ out = <<>>
    /\ run = "parent"
    /\ stream_slice = NoSlice
    /\ parents = <<>>
    /\ pos = [s \in Streams |-> IF s = "parent" THEN "fetch" ELSE "idle"]
    /\ next_page_token = [s \in Streams |-> "None"]
    /\ pagination_complete = [s \in Streams |-> FALSE]
    /\ response = [s \in Streams |-> NoResponse]
    /\ cursor = [s \in Streams |-> 0]
    /\ request_headers = EmptyMap
    /\ auth_header = EmptyMap
    /\ build_in = NoArgs
    /\ request = NoRequest
    /\ tries_user = 0
    /\ tries_default = 0
    /\ sent = NoSend
    /\ net = NoNet
    /\ authCalls = 0
    /\ reqlog = <<>>
    \* Comsumption.stream_slices calls parent.read_records() without a state
    /\ stream_state = [s \in Streams |->
                          IF s = "parent" THEN StateOrEmpty(StateNone) ELSE Unbound]
    /\ state_seen = {}
    /\ script = <<>>
    /\ ptr = 0
    /\ first = NoFirst
    /\ message = Unset

\* main.py: Comsumption over Supplies, both with the hooks of BaseStream
Init ==
    /\ InitCommon
    /\ hooks = "default"
    /\ faultsLeft = MaxFaults
    /\ limit = MaxFetches
    /\ state_arg = StateNone
    /\ replay = "off"
    /\ value = NotJson

\* generators that run ahead of the consumer
RunningAhead == status = "running"
Running == demand /\ status = "running"

\* a fan-out loop that notes the exception and carries on
RaiseSwallowed(kind, msg, origin) ==
    /\ err' = [kind |-> kind, msg |-> msg, origin |-> origin]
    /\ UNCHANGED <<status, demand>>

\* an exception leaves read_records
Raise(kind, msg, origin) ==
    /\ status' = "error"
    /\ err' = [kind |-> kind, msg |-> msg, origin |-> origin]
    /\ demand' = FALSE

\* the consumer calls next() on the generator
Pull ==
    /\ status = "running"
    /\ ~demand
    /\ demand' = TRUE
    /\ UNCHANGED <<hooks, token_rule, status, err, out, run, stream_slice, parents, pos,
                   next_page_token, pagination_complete, response, cursor,
                   request_headers, auth_header, build_in, request, tries_user,
                   tries_default, sent, net, authCalls, reqlog, faultsLeft>>
    /\ UNCHANGED <<idle, tape, threaded>>

\* the latest logical request of the log, with its outcome filled in
MarkLast(log, state) == [log EXCEPT ![Len(log)] = [@ EXCEPT !.state = state]]

\* the page number, within its pagination cycle, of the next request of stream s
PageNo(s) ==
    Cardinality({i \in 1..Len(reqlog) :
                    reqlog[i].stream = s /\ reqlog[i].slice = Len(parents)}) + 1

\* a page fetch that goes on with whatever the login endpoint answered
FetchAuthIgnoresStatus ==
    /\ Running
    /\ pos[run] = "fetch"
    /\ Len(reqlog) < limit
    /\ \E rh \in HookHeaders, st \in LoginStatuses, text \in LoginTexts(authCalls + 1) :
         /\ request_headers' = rh
         /\ Scripted(<<"auth", st, Len(text), 0>>)
         /\ authCalls' = authCalls + 1
         /\ net' = [auth |-> 1, sends |-> 0]
         /\ reqlog' = Append(reqlog,
                [stream |-> run,
                 slice |-> IF run = "parent" THEN 0 ELSE Len(parents),
                 page |-> IF run = "parent"
                          THEN Cardinality({i \in 1..Len(reqlog) : reqlog[i].stream = "parent"}) + 1
                          ELSE PageNo("child"),
                 size |-> 0, more |-> FALSE, cups |-> "", auth |-> st,
                 state |-> IF st = 200 THEN "pending" ELSE "failed"])
         /\ auth_header' = AuthHeader(Strip(text))
         /\ pos' = [pos EXCEPT ![run] = "build"]
         /\ UNCHANGED <<status, err, demand>>
    /\ UNCHANGED <<hooks, token_rule, out, run, stream_slice, parents, next_page_token,
                   pagination_complete, response, cursor, build_in, request, tries_user,
                   tries_default, sent, faultsLeft>>
    /\ state_seen' = Seen(run, {"request_headers"})
    /\ UNCHANGED <<idle, stream_state>>

\* an authenticator that keeps the header of its first login
FetchAuthCachesHeader ==
    /\ Running
    /\ pos[run] = "fetch"
    /\ Len(reqlog) < limit
    /\ \E rh \in HookHeaders, st \in LoginStatuses, text \in LoginTexts(authCalls + 1) :
         /\ request_headers' = rh
         /\ Scripted(<<"auth", st, Len(text), 0>>)
         /\ authCalls' = (IF authCalls = 0 THEN 1 ELSE authCalls)
         /\ net' = [auth |-> (IF authCalls = 0 THEN 1 ELSE 0), sends |-> 0]
         /\ reqlog' = Append(reqlog,
                [stream |-> run,
                 slice |-> IF run = "parent" THEN 0 ELSE Len(parents),
                 page |-> IF run = "parent"
                          THEN Cardinality({i \in 1..Len(reqlog) : reqlog[i].stream = "parent"}) + 1
                          ELSE PageNo("child"),
                 size |-> 0, more |-> FALSE, cups |-> "", auth |-> st,
                 state |-> IF st = 200 THEN "pending" ELSE "failed"])
         /\ IF RaisesForStatus(st)
            THEN /\ Raise("HTTPError", HTTPErrorMessage(st, LoginUrl), "auth")
                 /\ UNCHANGED <<auth_header, pos>>
            ELSE IF st = 200
            THEN /\ auth_header' = AuthHeader(Strip(text))
                 /\ pos' = [pos EXCEPT ![run] = "build"]
                 /\ UNCHANGED <<status, err, demand>>
            ELSE /\ Raise("Exception", <<"Error: " \o ToString(st)>>, "auth")
                 /\ UNCHANGED <<auth_header, pos>>
    /\ UNCHANGED <<hooks, token_rule, out, run, stream_slice, parents, next_page_token,
                   pagination_complete, response, cursor, build_in, request, tries_user,
                   tries_default, sent, faultsLeft>>
    /\ state_seen' = Seen(run, {"request_headers"})
    /\ UNCHANGED <<idle, stream_state>>

\* _fetch_next_page up to get_auth_header: request_headers, then the login call
\* of get_auth_token
FetchAuth ==
    /\ Running
    /\ pos[run] = "fetch"
    /\ Len(reqlog) < limit
    /\ \E rh \in HookHeaders, st \in LoginStatuses, text \in LoginTexts(authCalls + 1) :
         /\ request_headers' = rh
         /\ Scripted(<<"auth", st, Len(text), 0>>)
         /\ authCalls' = authCalls + 1
         /\ net' = [auth |-> 1, sends |-> 0]
         /\ reqlog' = Append(reqlog,
                [stream |-> run,
                 slice |-> IF run = "parent" THEN 0 ELSE Len(parents),
                 page |-> IF run = "parent"
                          THEN Cardinality({i \in 1..Len(reqlog) : reqlog[i].stream = "parent"}) + 1
                          ELSE PageNo("child"),
                 size |-> 0, more |-> FALSE, cups |-> "", auth |-> st,
                 state |-> IF st = 200 THEN "pending" ELSE "failed"])
         /\ IF RaisesForStatus(st)
            THEN /\ Raise("HTTPError", HTTPErrorMessage(st, LoginUrl), "auth")
                 /\ UNCHANGED <<auth_header, pos>>
            ELSE IF st = 200
            THEN /\ auth_header' = AuthHeader(Strip(text))
                 /\ pos' = [pos EXCEPT ![run] = "build"]
                 /\ UNCHANGED <<status, err, demand>>
            ELSE /\ Raise("Exception", <<"Error: " \o ToString(st)>>, "auth")
                 /\ UNCHANGED <<auth_header, pos>>
    /\ UNCHANGED <<hooks, token_rule, out, run, stream_slice, parents, next_page_token,
                   pagination_complete, response, cursor, build_in, request, tries_user,
                   tries_default, sent, faultsLeft>>
    /\ state_seen' = Seen(run, {"request_headers"})
    /\ UNCHANGED <<idle, stream_state>>

\* _fetch_next_page: the remaining arguments and _create_prepared_request
FetchBuild ==
    /\ Running
    /\ pos[run] = "build"
    /\ \E method \in HookMethods, json \in HookBodies, data \in HookBodies :
         LET prepared == CreatePreparedRequest(method, Path(run),
                            MergeHeaders(request_headers, auth_header),
                            RequestParams(run, stream_slice), json, data)
         IN  /\ build_in' = [method |-> method, json |-> json, data |-> data]
             /\ IF prepared.raises
                THEN /\ Raise("RequestBodyException",
                             <<"At the same time only one of the 'request_body_data' and 'request_body_json' functions can return data">>,
                             "build")
                     /\ reqlog' = MarkLast(reqlog, "failed")
                     /\ state_seen' = Seen(run, {"path", "request_params",
                                                 "request_body_json", "request_body_data"})
                     /\ UNCHANGED <<request, pos>>
                ELSE /\ request' = prepared
                     /\ pos' = [pos EXCEPT ![run] = "send"]
                     /\ reqlog' = [reqlog EXCEPT ![Len(reqlog)] =
                                      [@ EXCEPT !.cups = IF run = "child"
                                                         THEN prepared.params.cups
                                                         ELSE ""]]
                     /\ state_seen' = Seen(run, {"path", "request_params",
                                                 "request_body_json", "request_body_data",
                                                 "request_kwargs"})
                     /\ UNCHANGED <<status, err, demand>>
    /\ UNCHANGED <<hooks, token_rule, out, run, stream_slice, parents, next_page_token,
                   pagination_complete, response, cursor, request_headers, auth_header,
                   tries_user, tries_default, sent, net, authCalls, faultsLeft>>
    /\ UNCHANGED <<idle, tape, stream_state>>

\* What a response body turns out to hold is settled when the engine reads it:
\* parse_response reads the records (response.json()), next_page_token the token.

\* the JSON lists a body may hold: at most MaxRecs records, which for the child
\* may themselves hold distributorCode and pointType
PageBodies(s) ==
    { [size |-> n, held |-> h] : n \in 0..MaxRecs, h \in HeldChoices(s) }

\* _send_request: one call of _send (one transport send) under the two backoff
\* handlers, the user-defined one inside the default one
SendRequest ==
    /\ Running
    /\ pos[run] = "send"
    /\ \E st \in SendStatuses :
       \E bt \in (IF ShouldRetry(st) THEN HookBackoffs ELSE {NoBackoff}),
          raise \in (IF ShouldRetry(st) THEN {TRUE} ELSE HookRaise) :
         LET outcome == SendOutcome(st, bt, raise)
             \* this call's number in the running user handler
             u == tries_user + 1
             \* the user handler's call number in the default handler
             d == IF tries_user = 0 THEN tries_default + 1 ELSE tries_default
         IN
         /\ net' = [net EXCEPT !.sends = @ + 1]
         \* what the request was built from is not read again
         /\ request_headers' = EmptyMap
         /\ auth_header' = EmptyMap
         /\ build_in' = NoArgs
         /\ IF outcome = "UserDefinedBackoffException"
            THEN /\ faultsLeft > 0
                 /\ faultsLeft' = faultsLeft - 1
                 /\ \E expired \in Expiries :
                      /\ Scripted(<<"send", st, Flag(expired), 0>>)
                      /\ tries_user' = u
                      /\ tries_default' = d
                      /\ IF UserHandlerGivesUp(u, expired)
                         THEN /\ Raise(outcome, <<"">>, "send")
                              /\ sent' = [status |-> st, backoff |-> bt, raise |-> raise,
                                          body |-> 0, outcome |-> "raise"]
                              /\ reqlog' = MarkLast(reqlog, "failed")
                         ELSE /\ sent' = [status |-> st, backoff |-> bt, raise |-> raise,
                                          body |-> 0, outcome |-> "retry_user"]
                              /\ UNCHANGED <<status, err, demand, reqlog>>
                 /\ UNCHANGED <<pos, response, cursor, request>>
            ELSE IF outcome = "DefaultBackoffException"
            THEN /\ faultsLeft > 0
                 /\ faultsLeft' = faultsLeft - 1
                 /\ \E expired \in Expiries :
                      /\ Scripted(<<"send", st, Flag(expired), 0>>)
                      /\ tries_default' = d
                      /\ IF DefaultHandlerGivesUp(d, expired)
                         THEN /\ Raise(outcome, <<"">>, "send")
                              /\ tries_user' = u
                              /\ sent' = [status |-> st, backoff |-> bt, raise |-> raise,
                                          body |-> 0, outcome |-> "raise"]
                              /\ reqlog' = MarkLast(reqlog, "failed")
                         ELSE /\ tries_user' = 0
                              /\ sent' = [status |-> st, backoff |-> bt, raise |-> raise,
                                          body |-> 0, outcome |-> "retry_default"]
                              /\ UNCHANGED <<status, err, demand, reqlog>>
                 /\ UNCHANGED <<pos, response, cursor, request>>
            ELSE IF outcome = "HTTPError"
            THEN /\ \E body \in ErrorBodyIds :
                      /\ sent' = [status |-> st, backoff |-> bt, raise |-> raise,
                                  body |-> body, outcome |-> "raise"]
                      /\ Scripted(<<"send", st, 0, body>>)
                 /\ Raise(outcome, HTTPErrorMessage(st, request.url), "send")
                 /\ tries_user' = u
                 /\ tries_default' = d
                 /\ reqlog' = MarkLast(reqlog, "failed")
                 /\ UNCHANGED <<pos, response, cursor, request, faultsLeft>>
            ELSE /\ response' = [response EXCEPT ![run] =
                                    [NoResponse EXCEPT !.serial = Len(reqlog)]]
                 /\ reqlog' = MarkLast(reqlog, "ok")
                 /\ sent' = [status |-> st, backoff |-> bt, raise |-> raise,
                             body |-> 0, outcome |-> "return"]
                 /\ cursor' = [cursor EXCEPT ![run] = 0]
                 /\ pos' = [pos EXCEPT ![run] = "parse"]
                 \* _fetch_next_page has returned: its frame and the handlers' are gone
                 /\ request' = NoRequest
                 /\ FreshHandlers
                 /\ Scripted(<<"send", st, 0, 0>>)
                 /\ UNCHANGED <<status, err, demand, faultsLeft>>
    /\ UNCHANGED <<hooks, token_rule, out, run, stream_slice, parents, next_page_token,
                   pagination_complete, authCalls>>
    /\ UNCHANGED <<idle, threaded>>

\* parse_response: data = response.json(), which raises on a body that is not
\* JSON
ParseResponse ==
    /\ Running
    /\ pos[run] = "parse"
    /\ \E json_ok \in BOOLEAN :
         IF json_ok
         THEN /\ \E page \in PageBodies(run) :
                   /\ response' = [response EXCEPT ![run] =
                         [@ EXCEPT !.size = page.size, !.held = page.held]]
                   /\ reqlog' = [reqlog EXCEPT ![response[run].serial] =
                                    [@ EXCEPT !.size = page.size]]
                   /\ Scripted(<<"parse", 1, page.size, Flag(page.held)>>)
              /\ pos' = [pos EXCEPT ![run] = "yield"]
              /\ sent' = NoSend
              /\ UNCHANGED <<status, err, demand>>
         ELSE /\ Raise("JSONDecodeError", <<"Expecting value">>, "parse")
              /\ Scripted(<<"parse", 0, 0, 0>>)
              /\ reqlog' = [reqlog EXCEPT ![response[run].serial] =
                               [@ EXCEPT !.state = "unparsed"]]
              /\ UNCHANGED <<response, pos, sent>>
    /\ UNCHANGED <<hooks, token_rule, out, run, stream_slice, parents,
                   next_page_token, pagination_complete, cursor,
                   request_headers, auth_header, build_in, request, tries_user,
                   tries_default, net, authCalls, faultsLeft>>
    /\ state_seen' = Seen(run, {"parse_response"})
    /\ UNCHANGED <<idle, stream_state>>

\* Supplies.parse_response yields the next record of the page to stream_slices,
\* which yields the slice to Comsumption.read_records, which starts _read_pages
\* for it
YieldParent ==
    /\ Running
    /\ run = "parent"
    /\ pos["parent"] = "yield"
    /\ cursor["parent"] < response["parent"].size
    /\ LET record == ParentRecord(response["parent"].serial, cursor["parent"] + 1)
       IN  /\ parents' = Append(parents, record)
           /\ stream_slice' = [parent |-> record]
    /\ cursor' = [cursor EXCEPT !["parent"] = @ + 1]
    /\ run' = "child"
    /\ pos' = [pos EXCEPT !["child"] = "fetch"]
    /\ next_page_token' = [next_page_token EXCEPT !["child"] = "None"]
    /\ pagination_complete' = [pagination_complete EXCEPT !["child"] = FALSE]
    /\ UNCHANGED <<hooks, token_rule, demand, status, err, out, response, request_headers,
                   auth_header, build_in, request, tries_user, tries_default, sent,
                   net, authCalls, reqlog, faultsLeft>>
    \* Comsumption.read_records hands its stream_state to _read_pages
    /\ stream_state' = [stream_state EXCEPT !["child"] = StateOrEmpty(state_arg)]
    /\ UNCHANGED <<idle, tape, state_seen>>

\* a yield that hands the records over newest first
YieldChildPrepend ==
    /\ Running
    /\ run = "child"
    /\ pos["child"] = "yield"
    /\ cursor["child"] < response["child"].size
    /\ LET e == ChildRecord(response["child"].serial, cursor["child"] + 1,
                            response["child"].held)
       IN  out' = <<ParseChild(e, stream_slice)>> \o out
    /\ cursor' = [cursor EXCEPT !["child"] = @ + 1]
    /\ demand' = FALSE
    /\ UNCHANGED <<hooks, token_rule, status, err, run, stream_slice, parents, pos,
                   next_page_token, pagination_complete, response, request_headers,
                   auth_header, build_in, request, tries_user, tries_default, sent,
                   net, authCalls, reqlog, faultsLeft>>
    /\ UNCHANGED <<idle, tape, threaded>>

\* Comsumption.parse_response yields the next record of the page, with the two
\* fields of the slice's parent, to the consumer
YieldChild ==
    /\ Running
    /\ run = "child"
    /\ pos["child"] = "yield"
    /\ cursor["child"] < response["child"].size
    /\ LET e == ChildRecord(response["child"].serial, cursor["child"] + 1,
                            response["child"].held)
       IN  out' = Append(out, ParseChild(e, stream_slice))
    /\ cursor' = [cursor EXCEPT !["child"] = @ + 1]
    /\ demand' = FALSE
    /\ UNCHANGED <<hooks, token_rule, status, err, run, stream_slice, parents, pos,
                   next_page_token, pagination_complete, response, request_headers,
                   auth_header, build_in, request, tries_user, tries_default, sent,
                   net, authCalls, reqlog, faultsLeft>>
    /\ UNCHANGED <<idle, tape, threaded>>

\* _read_pages after the last record of a page: next_page_token, and the end of
\* the cycle when there is none. The end of a child's cycle resumes the parent;
\* the end of the parent's ends stream_slices and read_records.
EndPage ==
    /\ Running
    /\ pos[run] = "yield"
    /\ cursor[run] = response[run].size
    /\ \E held_token \in TokenChoices :
         LET resp == [response[run] EXCEPT !.token = held_token]
             token == NextPageToken(run, resp)
         IN  \* the response and the cursor are not read again
             /\ response' = [response EXCEPT ![run] = NoResponse]
             /\ cursor' = [cursor EXCEPT ![run] = 0]
             /\ reqlog' = [reqlog EXCEPT ![resp.serial] =
                              [@ EXCEPT !.more = TruthyToken(token)]]
             /\ next_page_token' = [next_page_token EXCEPT ![run] = token]
             /\ Scripted(<<"token", TokenNo(token), 0, 0>>)
             /\ IF ~TruthyToken(token)
                THEN /\ pagination_complete' = [pagination_complete EXCEPT ![run] = TRUE]
                     /\ pos' = [pos EXCEPT ![run] = "done"]
                     /\ IF run = "child"
                        THEN /\ run' = "parent"
                             /\ UNCHANGED <<status, demand>>
                        ELSE /\ status' = "end"
                             /\ demand' = FALSE
                             /\ UNCHANGED run
                ELSE /\ pos' = [pos EXCEPT ![run] = "fetch"]
                     /\ UNCHANGED <<pagination_complete, run, status, demand>>
    /\ UNCHANGED <<hooks, token_rule, err, out, stream_slice, parents,
                   request_headers, auth_header, build_in, request, tries_user,
                   tries_default, sent, net, authCalls, faultsLeft>>
    /\ UNCHANGED <<idle, threaded>>

Next ==
    \/ Pull
    \/ FetchAuth
    \/ FetchBuild
    \/ SendRequest
    \/ ParseResponse
    \/ YieldParent
    \/ YieldChild
    \/ EndPage

Spec == Init /\ [][Next]_vars

(***************************************************************************)
(* One logical request in full: the first _fetch_next_page of a stream     *)
(* whose hooks may be overridden, against a transport that may answer     *)
(* every send with a retryable response.                                   *)
(***************************************************************************)
InitFetch ==
    /\ InitCommon
    /\ token_rule = [s \in Streams |-> "default"]
    /\ hooks \in {"default", "overridden"}
    /\ faultsLeft = MaxTries * MaxTries
    /\ limit = MaxFetches
    /\ state_arg = StateNone
    /\ replay = "off"
    /\ value = NotJson

NextFetch ==
    \/ Pull
    \/ FetchAuth
    \/ FetchBuild
    \/ SendRequest

SpecFetch == InitFetch /\ [][NextFetch]_vars

(***************************************************************************)
(* parse_response_error_message on its own, on every body of Bodies.       *)
(***************************************************************************)
InitExtract ==
    /\ InitCommon
    /\ token_rule = [s \in Streams |-> "default"]
    /\ hooks = "default"
    /\ faultsLeft = 0
    /\ limit = 0
    /\ state_arg = StateNone
    /\ replay = "off"
    /\ value = NoBody

\* a failed response arrives, with any body of Bodies
ErrorResponse ==
    /\ value = NoBody
    /\ value' \in Bodies
    /\ UNCHANGED <<hooks, token_rule, demand, status, err, out, run, stream_slice, parents,
                   pos, next_page_token, pagination_complete, response, cursor,
                   request_headers, auth_header, build_in, request, tries_user,
                   tries_default, sent, net, authCalls, reqlog, faultsLeft, limit,
                   state_arg, first, message, tape, threaded>>

Extract ==
    /\ value # NoBody
    /\ message = Unset
    /\ message' = ParseErrorBody(value)
    /\ UNCHANGED <<hooks, token_rule, demand, status, err, out, run, stream_slice, parents,
                   pos, next_page_token, pagination_complete, response, cursor,
                   request_headers, auth_header, build_in, request, tries_user,
                   tries_default, sent, net, authCalls, reqlog, faultsLeft, limit,
                   state_arg, first, value, tape, threaded>>

NextExtract ==
    \/ ErrorResponse
    \/ Extract

SpecExtract == InitExtract /\ [][NextExtract]_vars

(***************************************************************************)
(* Two invocations of read_records on the same stream, the second against  *)
(* the answers the transport gave to the first.                            *)
(***************************************************************************)
InitAgain ==
    /\ InitCommon
    /\ \E rule \in {"default", "from_response"} : token_rule = [s \in Streams |-> rule]
    /\ hooks = "default"
    /\ faultsLeft = MaxFaults
    /\ limit = MaxFetchesAgain
    /\ state_arg = StateNone
    /\ replay = "record"
    /\ value = NotJson

\* a stream that keeps its pagination on the instance and finds it again
ReadRecordsAgainStale ==
    /\ replay = "record"
    /\ status \in {"end", "error"}
    /\ first' = [out |-> out, reqlog |-> reqlog, status |-> status, err |-> err]
    /\ replay' = "replay"
    /\ ptr' = 0
    \* the consumer and what it has seen of this invocation
    /\ demand' = FALSE
    /\ status' = "running"
    /\ err' = NoErr
    /\ out' = <<>>
    /\ reqlog' = <<>>
    /\ authCalls' = 0
    /\ net' = NoNet
    /\ sent' = NoSend
    /\ faultsLeft' = MaxFaults
    /\ state_seen' = {}
    \* the frames of the new generators
    /\ run' = "parent"
    /\ stream_slice' = NoSlice
    /\ parents' = <<>>
    /\ UNCHANGED <<pos, next_page_token, pagination_complete>>
    /\ response' = [s \in Streams |-> NoResponse]
    /\ cursor' = [s \in Streams |-> 0]
    /\ request_headers' = EmptyMap
    /\ auth_header' = EmptyMap
    /\ build_in' = NoArgs
    /\ request' = NoRequest
    /\ tries_user' = 0
    /\ tries_default' = 0
    /\ stream_state' = [s \in Streams |->
                           IF s = "parent" THEN StateOrEmpty(StateNone) ELSE Unbound]
    /\ UNCHANGED <<hooks, token_rule, limit, state_arg, script, value, message>>

\* The first invocation is over; the consumer calls read_records again. The
\* generator of the new call runs _read_pages from its first line, with locals
\* of its own.
ReadRecordsAgain ==
    /\ replay = "record"
    /\ status \in {"end", "error"}
    /\ first' = [out |-> out, reqlog |-> reqlog, status |-> status, err |-> err]
    /\ replay' = "replay"
    /\ ptr' = 0
    \* the consumer and what it has seen of this invocation
    /\ demand' = FALSE
    /\ status' = "running"
    /\ err' = NoErr
    /\ out' = <<>>
    /\ reqlog' = <<>>
    /\ authCalls' = 0
    /\ net' = NoNet
    /\ sent' = NoSend
    /\ faultsLeft' = MaxFaults
    /\ state_seen' = {}
    \* the frames of the new generators
    /\ run' = "parent"
    /\ stream_slice' = NoSlice
    /\ parents' = <<>>
    /\ pos' = [s \in Streams |-> IF s = "parent" THEN "fetch" ELSE "idle"]
    /\ next_page_token' = [s \in Streams |-> "None"]
    /\ pagination_complete' = [s \in Streams |-> FALSE]
    /\ response' = [s \in Streams |-> NoResponse]
    /\ cursor' = [s \in Streams |-> 0]
    /\ request_headers' = EmptyMap
    /\ auth_header' = EmptyMap
    /\ build_in' = NoArgs
    /\ request' = NoRequest
    /\ tries_user' = 0
    /\ tries_default' = 0
    /\ stream_state' = [s \in Streams |->
                           IF s = "parent" THEN StateOrEmpty(StateNone) ELSE Unbound]
    /\ UNCHANGED <<hooks, token_rule, limit, state_arg, script, value, message>>

NextAgain ==
    \/ Pull
    \/ FetchAuth
    \/ FetchBuild
    \/ SendRequest
    \/ ParseResponse
    \/ YieldParent
    \/ YieldChild
    \/ EndPage
    \/ ReadRecordsAgain

SpecAgain == InitAgain /\ [][NextAgain]_vars

(***************************************************************************)
(* A run against a prompt transport that may answer every send of every    *)
(* logical request with a retryable response.                              *)
(***************************************************************************)
InitBudget ==
    /\ InitCommon
    /\ \E rule \in {"default", "from_response"} : token_rule = [s \in Streams |-> rule]
    /\ hooks = "default"
    /\ faultsLeft = MaxTries * MaxFetchesBudget
    /\ limit = MaxFetchesBudget
    /\ state_arg = StateNone
    /\ replay = "prompt"
    /\ value = NotJson

SpecBudget == InitBudget /\ [][Next]_vars

(***************************************************************************)
(* A run whose caller hands a stream_state to Comsumption.read_records.    *)
(***************************************************************************)
InitState ==
    /\ InitCommon
    /\ \E rule \in {"default", "from_response"} : token_rule = [s \in Streams |-> rule]
    /\ hooks = "default"
    /\ faultsLeft = MaxFaults
    /\ limit = MaxFetchesState
    /\ state_arg \in States
    /\ replay = "prompt"
    /\ value = NotJson

SpecState == InitState /\ [][Next]_vars

(***************************************************************************)
(* The run of main.py: neither Supplies nor Comsumption overrides          *)
(* next_page_token. The cap on page fetches leaves room for one fetch more *)
(* than a parent page of MaxRecs records calls for.                        *)
(***************************************************************************)
InitMain ==
    /\ InitCommon
    /\ token_rule = [s \in Streams |-> "default"]
    /\ hooks = "default"
    /\ faultsLeft = MaxFaults
    /\ limit = MaxRecs + 2
    /\ state_arg = StateNone
    /\ replay = "off"
    /\ value = NotJson

SpecMain == InitMain /\ [][Next]_vars

(***************************************************************************)
(* Reading the log of a run.                                               *)
(***************************************************************************)
RECURSIVE SortedSeq(_)
SortedSeq(S) ==
    IF S = {} THEN <<>>
    ELSE LET m == CHOOSE x \in S : \A y \in S : x <= y
         IN  <<m>> \o SortedSeq(S \ {m})

\* the logical requests of the pagination cycle of stream s for slice k (0 for
\* the parent), in the order they were issued
CycleOf(s, k) ==
    SortedSeq({i \in 1..Len(reqlog) : reqlog[i].stream = s /\ reqlog[i].slice = k})

\* the cycle stream s is in, or was last in
CurrentCycle(s) == CycleOf(s, IF s = "parent" THEN 0 ELSE Len(parents))

\* how many records of the response to request i have been yielded
YieldedOf(i) ==
    LET s == reqlog[i].stream
    IN  IF reqlog[i].state # "ok" THEN 0
        ELSE IF response[s].serial = i THEN cursor[s]
        ELSE reqlog[i].size

\* <<i, 1>> .. <<i, n>> for every request i of idx in turn, n being the number
\* of records of its response that have been yielded
RECURSIVE YieldedMeasures(_)
YieldedMeasures(idx) ==
    IF idx = <<>> THEN <<>>
    ELSE [j \in 1..YieldedOf(Head(idx)) |-> <<Head(idx), j>>]
            \o YieldedMeasures(Tail(idx))

\* the records of out that came from the requests in the set I
OutOf(I) == SelectSeq(out, LAMBDA r : r.measure[1] \in I)
MeasuresOf(records) == [j \in 1..Len(records) |-> records[j].measure]
Range(f) == {f[x] : x \in DOMAIN f}

\* C1: a pagination cycle ends exactly when the token of its latest response
\* is falsy (None or empty). A request follows a response only if that
\* response gave a truthy token; a cycle that has ended got n >= 1 responses,
\* the first n-1 with a truthy token and the n-th with a falsy one, made
\* exactly those n requests and yielded the records of all n pages in page
\* order; after a response with a truthy token the cycle has not ended and is
\* at its next request.
C1_PaginationEndsOnFalsyToken ==
    \A s \in Streams :
        LET idx == CurrentCycle(s)
            n == Len(idx)
        IN  /\ \A j \in 1..(n - 1) :
                 /\ reqlog[idx[j]].state = "ok"
                 /\ reqlog[idx[j]].more
                 /\ reqlog[idx[j]].page = j
            /\ pagination_complete[s] =>
                 /\ n >= 1
                 /\ reqlog[idx[n]].state = "ok"
                 /\ reqlog[idx[n]].page = n
                 /\ next_page_token[s] \in {"None", "Empty"}
                 /\ IF s = "child"
                    THEN MeasuresOf(OutOf(Range(idx)))
                            = YieldedMeasures(idx)
                         /\ \A j \in 1..n : YieldedOf(idx[j]) = reqlog[idx[j]].size
                    ELSE \A j \in 1..n : YieldedOf(idx[j]) = reqlog[idx[j]].size
            /\ (status = "running" /\ pos[s] = "fetch" /\ n >= 1) =>
                 /\ ~pagination_complete[s]
                 /\ reqlog[idx[n]].state = "ok"
                 /\ next_page_token[s] = "A"
            /\ (pos[s] \in {"build", "send", "parse", "yield"}) => ~pagination_complete[s]

\* a cycle of three pages, each with a record, has ended
C1_Witness ==
    /\ pagination_complete["child"]
    /\ Len(CurrentCycle("child")) = 3
    /\ \A j \in 1..3 : reqlog[CurrentCycle("child")[j]].size >= 1
    /\ Len(OutOf(Range(CurrentCycle("child")))) >= 3

\* the requests of stream s, in the order they were issued
RequestsOf(s) == SortedSeq({i \in 1..Len(reqlog) : reqlog[i].stream = s})

\* a pagination cycle that has run to its end
CycleEnded(idx) ==
    /\ idx # <<>>
    /\ reqlog[idx[Len(idx)]].state = "ok"
    /\ ~reqlog[idx[Len(idx)]].more
    /\ YieldedOf(idx[Len(idx)]) = reqlog[idx[Len(idx)]].size
    /\ response[reqlog[idx[1]].stream].serial # idx[Len(idx)]

\* (slice, page, index) of a record of out, and the order on such keys
KeyOf(r) == <<reqlog[r.measure[1]].slice, reqlog[r.measure[1]].page, r.measure[2]>>
KeyLess(a, b) ==
    \/ a[1] < b[1]
    \/ a[1] = b[1] /\ a[2] < b[2]
    \/ a[1] = b[1] /\ a[2] = b[2] /\ a[3] < b[3]

\* C3: the dependent stream runs one pagination cycle per record the parent
\* yields, in the parent's order, each with the parameters of its own parent
\* record and each ended before the next begins; the records the consumer gets
\* are parent-major, page-minor: those of slice k before those of slice k+1,
\* and within a slice those of page j before those of page j+1.
C3_ParentMajorPageMinor ==
    /\ MeasuresOf(out) = YieldedMeasures(RequestsOf("child"))
    /\ \A a, b \in 1..Len(out) : a < b => KeyLess(KeyOf(out[a]), KeyOf(out[b]))
    /\ \A i \in 1..Len(reqlog) :
         reqlog[i].stream = "child" =>
            /\ reqlog[i].slice \in 1..Len(parents)
            /\ reqlog[i].cups \in {"", parents[reqlog[i].slice].cups}
            /\ reqlog[i].state = "ok" => reqlog[i].cups = parents[reqlog[i].slice].cups
            /\ \A j \in 1..(i - 1) :
                 reqlog[j].stream = "child" =>
                    \/ reqlog[j].slice < reqlog[i].slice
                    \/ reqlog[j].slice = reqlog[i].slice /\ reqlog[j].page < reqlog[i].page
    /\ \A k \in 1..(Len(parents) - 1) : CycleEnded(CycleOf("child", k))
    /\ status = "end" => \A k \in 1..Len(parents) : CycleEnded(CycleOf("child", k))
    /\ LET yielded == YieldedMeasures(RequestsOf("parent"))
       IN  parents = [k \in 1..Len(yielded) |-> ParentRecord(yielded[k][1], yielded[k][2])]

\* a run that ended after two parent records, the first with two pages
C3_Witness ==
    /\ status = "end"
    /\ Len(parents) = 2
    /\ Len(CycleOf("child", 1)) = 2
    /\ \A j \in 1..2 : reqlog[CycleOf("child", 1)[j]].size >= 1
    /\ reqlog[CycleOf("child", 2)[1]].size >= 1

\* C4: every record the consumer gets carries the distributorCode and the
\* pointType of the parent record of the slice its page was fetched under,
\* whatever the body of the response held for these fields.
C4_ParentFieldsCopied ==
    \A j \in 1..Len(out) :
        LET k == reqlog[out[j].measure[1]].slice
        IN  /\ {"distributorCode", "pointType"} \subseteq DOMAIN out[j]
            /\ out[j].distributorCode = parents[k].distributorCode
            /\ out[j].pointType = parents[k].pointType

\* a record of the second slice was yielded from a body that held the two
\* fields itself, and the two parents differ in them
C4_Witness ==
    /\ Len(parents) = 2
    /\ parents[1].distributorCode # parents[2].distributorCode
    /\ pos["child"] = "yield"
    /\ response["child"].held
    /\ cursor["child"] >= 1
    /\ Len(out) >= 2

\* the state part of C5
C5_FailureSurfaces ==
    /\ \A i \in 1..Len(reqlog) :
         reqlog[i].state \in {"failed", "unparsed"} =>
            /\ status = "error"
            /\ i = Len(reqlog)
    /\ status = "error" =>
         /\ err.kind # "none"
         /\ ~demand
         /\ reqlog # <<>>
         /\ reqlog[Len(reqlog)].state \in {"failed", "unparsed"}
         /\ MeasuresOf(out) = YieldedMeasures(RequestsOf("child"))
         /\ \A i \in 1..(Len(reqlog) - 1) :
              reqlog[i].stream = "child" =>
                 /\ reqlog[i].state = "ok"
                 /\ YieldedOf(i) = reqlog[i].size
         /\ YieldedOf(Len(reqlog)) = 0

\* C5: a terminal failure while a page is fetched reaches the consumer at that
\* point: the failed request is the last one of the run, the consumer has
\* received, in order, exactly the records of the pages fetched before it (all
\* earlier slices and the earlier pages of the slice), and afterwards no record
\* is yielded and no request, of the child, the parent or the login, is issued.
C5_FailureHaltsSequence ==
    /\ []C5_FailureSurfaces
    /\ [][status = "error" =>
            UNCHANGED <<status, err, out, reqlog, authCalls, net, parents>>]_vars

\* the second page of the second slice failed after records of both slices
\* had been yielded
C5_Witness ==
    /\ status = "error"
    /\ reqlog[Len(reqlog)].stream = "child"
    /\ reqlog[Len(reqlog)].slice = 2
    /\ reqlog[Len(reqlog)].page = 2
    /\ \E a, b \in 1..Len(out) : KeyOf(out[a])[1] = 1 /\ KeyOf(out[b])[1] = 2

(***************************************************************************)
(* One logical request (SpecFetch).                                        *)
(***************************************************************************)
BackoffExceptions == {"UserDefinedBackoffException", "DefaultBackoffException"}

\* the retryable statuses as the specification states them
RetryableStatus(st) == st = 429 \/ (st >= 500 /\ st < 600)

\* C2: one logical request makes at most 6 transport sends, whatever mix of
\* user-defined-wait and default-backoff failures it meets, and a retryable
\* failure that is not retried is surfaced as a terminal backoff error.
C2_AtMostSixSends ==
    /\ net.sends <= 6
    /\ (sent.outcome = "raise" /\ RetryableStatus(sent.status)) =>
          (status = "error" /\ err.kind \in BackoffExceptions)

\* the builder was handed a non-empty JSON body and a non-empty form body for
\* a body-bearing method
ConflictingBodies ==
    /\ build_in.method \in {"GET", "POST", "PUT", "PATCH"}
    /\ build_in.json = "nonempty"
    /\ build_in.data = "nonempty"

\* C6 as claimed: the conflicting-body error is raised and no network call at
\* all, neither a send of the request nor the login call, was issued by the
\* page fetch before it.
C6_NoNetworkCallAtAll ==
    ConflictingBodies =>
        /\ status = "error"
        /\ err.kind = "RequestBodyException"
        /\ net.sends = 0
        /\ net.auth = 0

\* C6, amended: a page fetch whose builder is handed a non-empty JSON body and
\* a non-empty form body for a method in {GET, POST, PUT, PATCH} always raises
\* the conflicting-body error; no request is prepared and none is sent, while
\* the one login call of that page fetch was issued before the builder ran.
C6_ConflictRaisesBeforeAnySend ==
    ConflictingBodies =>
        /\ status = "error"
        /\ err.kind = "RequestBodyException"
        /\ err.origin = "build"
        /\ request.method = ""
        /\ net.sends = 0
        /\ net.auth = 1

C6_Witness ==
    /\ ConflictingBodies
    /\ build_in.method = "GET"
    /\ err.kind = "RequestBodyException"

\* C7: a response is put on the retry path (a backoff exception is raised for
\* it, which a handler retries or, its budget spent, lets through) if and only
\* if its status is 429 or in [500, 600).
C7_RetryIffRetryableStatus ==
    sent.outcome # "none" =>
        ( RetryableStatus(sent.status)
            <=> \/ sent.outcome \in {"retry_user", "retry_default"}
                \/ sent.outcome = "raise" /\ err.kind \in BackoffExceptions )

\* a 429 was retried
C7_Witness ==
    /\ sent.status = 429
    /\ sent.outcome = "retry_default"
    /\ status = "running"

\* C8: the headers of a request a page fetch has built are the headers of the
\* resource with the header of the authenticator on top: every key of the
\* authenticator's header has the authenticator's value, every other key of
\* the resource's headers keeps the resource's value, and there is no other key.
C8_AuthHeaderWins ==
    (status = "running" /\ pos[run] = "send" /\ net.sends = 0) =>
        /\ "Authorization" \in DOMAIN auth_header
        /\ DOMAIN request.headers = DOMAIN request_headers \cup DOMAIN auth_header
        /\ \A k \in DOMAIN auth_header : request.headers[k] = auth_header[k]
        /\ \A k \in DOMAIN request_headers \ DOMAIN auth_header :
              request.headers[k] = request_headers[k]

\* a request was built from resource headers that hold an Authorization of
\* their own and another header
C8_Witness ==
    /\ status = "running"
    /\ pos[run] = "send"
    /\ net.sends = 0
    /\ {"Authorization", "Accept"} \subseteq DOMAIN request_headers
    /\ request_headers["Authorization"] # auth_header["Authorization"]

\* C9 as claimed: a response that is not retryable, with raise_on_http_errors
\* true, raises a terminal HTTP error unless its status is 2xx or 3xx.
C9_RaisesUnlessSuccess ==
    (sent.outcome # "none" /\ ~RetryableStatus(sent.status) /\ sent.raise) =>
        IF sent.status >= 200 /\ sent.status < 400
        THEN sent.outcome = "return" /\ status = "running"
        ELSE status = "error" /\ err.kind = "HTTPError"

\* the state part of C9, amended
C9_ClientErrorIsTerminal ==
    (sent.outcome # "none" /\ ~RetryableStatus(sent.status) /\ sent.raise) =>
        IF sent.status >= 400 /\ sent.status < 600
        THEN /\ sent.outcome = "raise"
             /\ status = "error"
             /\ err.kind = "HTTPError"
             /\ err.origin = "send"
             /\ ~demand
        ELSE /\ sent.outcome = "return"
             /\ status = "running"
             /\ err.kind = "none"
             /\ pos[run] = "parse"

\* C9, amended: a response that is not retryable, with raise_on_http_errors
\* true and a status in [400, 600) (under the default should_retry: 400 to 499
\* other than 429), raises a terminal HTTP error at that send: neither backoff
\* tier sends the request again, the error reaches the caller of read_records
\* and the record sequence ends there; a response with any other status (1xx,
\* 2xx, 3xx, 600 and above) is returned without error.
C9_ClientErrorRaisedOthersReturned ==
    /\ []C9_ClientErrorIsTerminal
    /\ [][status = "error" => UNCHANGED <<status, err, net, out, reqlog>>]_vars

\* a 400 ended the request at its first send
C9_Witness ==
    /\ status = "error"
    /\ err.kind = "HTTPError"
    /\ err.origin = "send"
    /\ sent.status = 400
    /\ net.sends = 1

\* C10: the terminal HTTP error of a non-retryable response carries the
\* message that parse_response_error_message extracts from the body, whenever
\* it extracts one.
C10_ErrorCarriesExtractedMessage ==
    (err.kind = "HTTPError" /\ err.origin = "send"
        /\ ParseResponseErrorMessage(sent.body)[1]) =>
            \E i \in 1..Len(err.msg) : err.msg[i] = ParseResponseErrorMessage(sent.body)[2]

(***************************************************************************)
(* Error-message extraction (SpecExtract).                                 *)
(***************************************************************************)
\* the keys the rule searches, in its order
RuleKeys == <<"message", "messages", "error", "errors", "failures", "failure", "detail">>

\* the messages of ms, joined with ', '
RECURSIVE RuleJoin(_)
RuleJoin(ms) ==
    IF ms = <<>> THEN ""
    ELSE IF Len(ms) = 1 THEN ms[1][2]
    ELSE ms[1][2] \o ", " \o RuleJoin(Tail(ms))

\* the first index of RuleKeys that satisfies Hit, 0 when none does
FirstKey(Hit(_)) ==
    IF \E i \in 1..Len(RuleKeys) : Hit(RuleKeys[i])
    THEN CHOOSE i \in 1..Len(RuleKeys) :
            Hit(RuleKeys[i]) /\ \A j \in 1..(i - 1) : ~Hit(RuleKeys[j])
    ELSE 0

\* the rule as the claim states it: the first key that is present
RECURSIVE RulePresent(_)
RulePresent(v) ==
    CASE v[1] = "str" -> Just(v[2])
      [] v[1] = "list" ->
            LET ms == SelectSeq([i \in 1..Len(v[2]) |-> RulePresent(v[2][i])],
                                LAMBDA m : m[1])
            IN  IF ms = <<>> THEN Nothing ELSE Just(RuleJoin(ms))
      [] v[1] = "dict" ->
            LET Present(k) == k \in DOMAIN v[2]
                i == FirstKey(Present)
            IN  IF i = 0 THEN Nothing ELSE RulePresent(v[2][RuleKeys[i]])
      [] OTHER -> Nothing

EmptyValues == {JStr(""), JNum(0), JNull, JList(<<>>), JDict(<<>>)}

\* the rule, amended: the first key whose value is not empty
RECURSIVE RuleNonEmpty(_)
RuleNonEmpty(v) ==
    CASE v[1] = "str" -> Just(v[2])
      [] v[1] = "list" ->
            LET ms == SelectSeq([i \in 1..Len(v[2]) |-> RuleNonEmpty(v[2][i])],
                                LAMBDA m : m[1])
            IN  Just(RuleJoin(ms))
      [] v[1] = "dict" ->
            LET NonEmpty(k) == k \in DOMAIN v[2] /\ v[2][k] \notin EmptyValues
                i == FirstKey(NonEmpty)
            IN  IF i # 0 THEN RuleNonEmpty(v[2][RuleKeys[i]])
                ELSE IF "detail" \in DOMAIN v[2] THEN RuleNonEmpty(v[2]["detail"])
                ELSE Nothing
      [] OTHER -> Nothing

\* C11 as claimed: the extracted message is that of the rule that recurses into
\* the value of the first key that is present, whatever its value, and gives
\* none for a list none of whose elements yields a message; none for a body
\* that is not JSON.
C11_FirstPresentKey ==
    message # Unset =>
        message = (IF value = NotJson THEN Nothing ELSE RulePresent(value))

\* C11, amended: a string is returned as is; a list gives the non-none results
\* of its elements joined with ', ' (the empty string when no element yields a
\* message); a mapping is searched in the order message, messages, error,
\* errors, failures, failure, detail and the value of the first key whose value
\* is not empty (not "", 0, null, an empty list or an empty mapping) is recursed
\* into, the value of detail being recursed into when it is present and no key
\* has a non-empty value; anything else gives none, and so does a body that is
\* not JSON.
C11_FirstNonEmptyKey ==
    /\ message # Unset =>
          message = (IF value = NotJson THEN Nothing ELSE RuleNonEmpty(value))
    /\ ParseErrorBody(JDict([k \in {"error"} |->
            JDict([j \in {"message"} |-> JStr("bad date")])])) = Just("bad date")
    /\ ParseErrorBody(JDict([k \in {"errors"} |-> JList(<<JStr("a"), JStr("b")>>)]))
          = Just("a, b")

\* an empty message was passed over for the error that follows it
C11_Witness ==
    /\ value = JDict([k \in {"message", "error"} |->
                        IF k = "message" THEN JStr("") ELSE JStr("a")])
    /\ message = Just("a")

(***************************************************************************)
(* The authenticator within a page fetch.                                  *)
(***************************************************************************)
\* the latest logical request
LastRequest == reqlog[Len(reqlog)]

\* the login endpoint answered the latest page fetch with a status other than 200
LoginRefused == Len(reqlog) > 0 /\ LastRequest.auth # 200

\* C12, its state part
C12_AuthFailureSurfaces ==
    LoginRefused =>
        /\ status = "error"
        /\ err.origin = "auth"
        /\ ~demand
        /\ net = [auth |-> 1, sends |-> 0]
        /\ authCalls = Len(reqlog)
        /\ request = NoRequest
        /\ pos[run] = "fetch"

\* C12: when the login call of a page fetch is refused, the failure is fatal
\* for that request: the login call was made once, the resource request is
\* neither built nor sent, the error reaches the consumer of read_records, and
\* from then on no login call, no send, no request and no record follows.
C12_AuthFailureIsFatal ==
    /\ []C12_AuthFailureSurfaces
    /\ [][LoginRefused => UNCHANGED <<status, err, net, authCalls, reqlog, out, tries_user,
                                      tries_default>>]_vars

\* the login call of a page of the second slice was refused, after records of
\* the first slice had been yielded
C12_Witness ==
    /\ LoginRefused
    /\ err.origin = "auth"
    /\ LastRequest.stream = "child"
    /\ LastRequest.slice = 2
    /\ Len(out) > 0

\* the text msg, given as its parts, holds needle
MessageHolds(msg, needle) ==
    \E i \in 1..Len(msg), j \in 1..Len(msg) : i <= j /\ Concat(SubSeq(msg, i, j)) = needle

\* C13: for every status other than 200 of the login endpoint, get_auth_token
\* makes one POST and raises an exception whose message holds
\* "Error: <status>" with the status of that response.
C13_ErrorNamesStatus ==
    LoginRefused =>
        /\ net.auth = 1
        /\ err.origin = "auth"
        /\ MessageHolds(err.msg, "Error: " \o ToString(LastRequest.auth))

\* C16: when the login endpoint answers 200, the header that get_auth_header
\* returns maps Authorization, and nothing else, to "Bearer " followed by the
\* body text without its surrounding whitespace, after exactly one login call.
C16_BearerOfStrippedText ==
    (status = "running" /\ pos[run] = "build") =>
        /\ LastRequest.auth = 200
        /\ net.auth = 1
        /\ authCalls = 1
        /\ auth_header = [k \in {"Authorization"} |-> "Bearer tok" \o ToString(authCalls)]

\* the login call has returned a token
C16_Witness ==
    /\ status = "running"
    /\ pos[run] = "build"
    /\ net.auth = 1
    /\ auth_header["Authorization"] = "Bearer tok1"

(***************************************************************************)
(* Two invocations (SpecAgain).                                            *)
(***************************************************************************)
IsPrefix(s, full) == Len(s) <= Len(full) /\ s = SubSeq(full, 1, Len(s))

\* C14, its state part: the second invocation never asks the transport for a
\* call the first did not make at that point, what it has yielded and
\* requested so far is what the first had, and it ends as the first did
C14_SameAsFirst ==
    /\ replay # "diverged"
    /\ replay = "replay" =>
          /\ IsPrefix(out, first.out)
          /\ Len(reqlog) <= Len(first.reqlog)
          /\ \A i \in 1..Len(reqlog) :
                /\ reqlog[i].stream = first.reqlog[i].stream
                /\ reqlog[i].slice = first.reqlog[i].slice
                /\ reqlog[i].page = first.reqlog[i].page
                /\ reqlog[i].auth = first.reqlog[i].auth
    /\ (replay = "replay" /\ status \in {"end", "error"}) =>
          /\ out = first.out
          /\ reqlog = first.reqlog
          /\ status = first.status
          /\ err = first.err
          /\ ptr = Len(script)

\* C14: two invocations of read_records on the same stream against the same
\* scripted transport yield the same records and issue the same requests, and
\* end alike; the second starts with next_page_token none, pagination_complete
\* false, no slice and no retry counted.
C14_SecondInvocationRepeatsFirst ==
    /\ []C14_SameAsFirst
    /\ [][(replay = "record" /\ replay' = "replay") =>
            /\ next_page_token' = [s \in Streams |-> "None"]
            /\ pagination_complete' = [s \in Streams |-> FALSE]
            /\ stream_slice' = NoSlice
            /\ tries_user' = 0 /\ tries_default' = 0]_vars

\* the second invocation has ended after three requests over two slices and
\* at least one record
C14_Witness ==
    /\ replay = "replay"
    /\ status = "end"
    /\ Len(reqlog) = 3
    /\ Len(parents) = 2
    /\ Len(out) > 0
    /\ ptr = Len(script)

(***************************************************************************)
(* Laziness.                                                               *)
(***************************************************************************)
\* how many records of the response to request j the consumer has received
Pulled(j) == Cardinality({k \in 1..Len(out) : out[k].measure[1] = j})

\* the parent records that came with the response to request j
SlicesOf(j) == {k \in 1..Len(parents) : parents[k].pointType = j}

\* C15, its state part: when a request has been issued, every record of every
\* earlier child page has been pulled, every record of every earlier parent
\* page has been made a slice, and the cycle of every slice but the latest is
\* complete
C15_EarlierPagesPulled ==
    \A i \in 1..Len(reqlog) : \A j \in 1..(i - 1) :
        /\ reqlog[j].state = "ok"
        /\ reqlog[j].stream = "child" => Pulled(j) = reqlog[j].size
        /\ (reqlog[j].stream = "parent" /\ reqlog[i].stream = "parent") =>
              /\ Cardinality(SlicesOf(j)) = reqlog[j].size
              /\ \A k \in SlicesOf(j) : CycleEnded(CycleOf("child", k))
        /\ (reqlog[j].stream = "child" /\ reqlog[i].stream = "child"
                /\ reqlog[j].slice < reqlog[i].slice) =>
              CycleEnded(CycleOf("child", reqlog[j].slice))

\* C15: requests are driven by consumption only. No login call, request or
\* send is made unless the consumer is waiting for a record; a record handed
\* over ends the wait, so a consumer that stops pulling after a record sees no
\* further request; and a request is issued only once every record of the
\* earlier pages and slices has been pulled.
C15_RequestsOnlyOnDemand ==
    /\ []C15_EarlierPagesPulled
    /\ [][~demand => UNCHANGED <<reqlog, authCalls, net, out, parents>>]_vars
    /\ [][out' # out => (demand /\ ~demand' /\ Len(out') = Len(out) + 1
                          /\ UNCHANGED <<reqlog, authCalls, net>>)]_vars

\* the consumer has a record of the second slice and has not asked for more,
\* with a record of the page still to come
C15_Witness ==
    /\ status = "running"
    /\ ~demand
    /\ Len(parents) = 2
    /\ Len(out) >= 2
    /\ cursor["child"] < response["child"].size

(***************************************************************************)
(* The backoff tiers.                                                      *)
(***************************************************************************)
\* C17: a retryable response is retried under the user-defined tier exactly
\* when backoff_time gave a wait for it, whatever the wait (0 included), and
\* under the default tier only when backoff_time gave none.
C17_WaitChoosesUserTier ==
    sent.outcome \in {"retry_user", "retry_default"} =>
        (sent.backoff # NoBackoff <=> sent.outcome = "retry_user")

(***************************************************************************)
(* Retries over several logical requests (SpecBudget).                     *)
(***************************************************************************)
\* C18: the retry budget is not shared between logical requests. Every
\* logical request starts with no attempt counted against it, and, max_time
\* not having run out, a request is given up as out of retries after exactly
\* 6 sends of its own, however many attempts earlier requests used.
C18_FreshBudgetPerRequest ==
    /\ (status = "running" /\ pos[run] = "send" /\ net.sends = 0) =>
          (tries_user = 0 /\ tries_default = 0)
    /\ err.kind \in BackoffExceptions => net.sends = MaxTries

\* the second logical request was given up after 6 sends of its own, the
\* first having been retried three times
C18_Witness ==
    /\ err.kind = "DefaultBackoffException"
    /\ Len(reqlog) = 2
    /\ net.sends = 6
    /\ MaxTries * MaxFetchesBudget - faultsLeft = 9

\* C19, its state part: as many login calls as page fetches started, one per
\* page fetch, and the request being sent carries the header of the login call
\* of its own page fetch
C19_OneLoginPerFetch ==
    /\ authCalls = Len(reqlog)
    /\ Len(reqlog) > 0 => net.auth = 1
    /\ (status = "running" /\ pos[run] = "send") =>
          request.headers["Authorization"] = "Bearer tok" \o ToString(Len(reqlog))

\* C19: get_auth_header is called exactly once per logical page request,
\* whatever the number of retries: the calls so far are as many as the page
\* fetches started, a send makes no login call, and a retry sends the request
\* that was prepared before the first attempt.
C19_HeaderOncePerPageFetch ==
    /\ []C19_OneLoginPerFetch
    /\ [][net'.sends = net.sends + 1 =>
            /\ authCalls' = authCalls
            /\ request' \in {request, NoRequest}
            /\ (sent'.outcome \in {"retry_user", "retry_default"} => request' = request)]_vars

\* the second page fetch is at its third send, the first having been retried
C19_Witness ==
    /\ Len(reqlog) = 2
    /\ authCalls = 2
    /\ net.sends = 3
    /\ sent.outcome = "retry_default"
    /\ MaxTries * MaxFetchesBudget - faultsLeft > 3

(***************************************************************************)
(* The stream_state of a fetch cycle (SpecState).                          *)
(***************************************************************************)
\* the hooks _fetch_next_page and read_records call with stream_state
StateHooks ==
    {"request_headers", "path", "request_params", "request_body_json",
     "request_body_data", "request_kwargs", "parse_response"}

\* the state the cycles of stream s are to work with: the caller's mapping in
\* the cycles of Comsumption, an empty mapping where none was given, and in
\* the cycle of Supplies, which stream_slices starts without one
CycleState(s) ==
    IF s = "parent" \/ state_arg = StateNone THEN StateMap(EmptyMap) ELSE state_arg

\* C20: stream_state goes through a fetch cycle unchanged. On every page of
\* every slice each of path, request_params, request_headers, the body
\* functions, request_kwargs and parse_response is called with the mapping the
\* cycle was started with, key for key, an absent state having been replaced
\* by an empty mapping at the start of the cycle.
C20_StateThreadedUnchanged ==
    /\ \A e \in state_seen : e[2] \in StateHooks /\ e[3] = CycleState(e[1])
    /\ stream_state["parent"] = CycleState("parent")
    /\ stream_state["child"] \in {Unbound, CycleState("child")}

\* a caller's state with a key has been through two pages of the first slice
\* and the first page of the second, every hook called with it
C20_Witness ==
    /\ state_arg = StateMap([date |-> "2023/09"])
    /\ \A h \in StateHooks : <<"child", h, state_arg>> \in state_seen
    /\ Len(reqlog) = 4
    /\ reqlog[2].stream = "child" /\ reqlog[2].slice = 1
    /\ reqlog[3].stream = "child" /\ reqlog[3].slice = 1
    /\ reqlog[4].stream = "child" /\ reqlog[4].slice = 2
    /\ pos["child"] = "yield"

(***************************************************************************)
(* The requests of a run with the inherited next_page_token (SpecMain).    *)
(***************************************************************************)
\* C21: with the inherited next_page_token every pagination cycle issues
\* exactly one logical request: a cycle never has a second request and has
\* made its one request before it is complete. A consumption of the dependent
\* stream that ran to its end without a failure, over a parent that yielded N
\* records, has issued 1 parent request and N child requests, one per slice;
\* for N = 0 it has issued no child request and yielded nothing.
C21_OneRequestPerCycle ==
    /\ Len(RequestsOf("parent")) <= 1
    /\ \A k \in 1..Len(parents) : Len(CycleOf("child", k)) <= 1
    /\ \A i \in 1..Len(reqlog) : reqlog[i].slice \in 0..Len(parents)
    /\ \A s \in Streams : pagination_complete[s] => Len(CurrentCycle(s)) = 1
    /\ status = "end" =>
          /\ Len(RequestsOf("parent")) = 1
          /\ Len(parents) = reqlog[RequestsOf("parent")[1]].size
          /\ Len(RequestsOf("child")) = Len(parents)
          /\ \A k \in 1..Len(parents) : Len(CycleOf("child", k)) = 1
          /\ \A i \in 1..Len(reqlog) : reqlog[i].state = "ok" /\ ~reqlog[i].more
          /\ Len(reqlog) = 1 + Len(parents)
          /\ Len(reqlog) < limit
          /\ Len(parents) = 0 => out = <<>>

\* a consumption over a parent of two records has ended: three requests, one
\* of them retried, and records of both slices read
C21_Witness ==
    /\ status = "end"
    /\ Len(parents) = 2
    /\ Len(RequestsOf("parent")) = 1
    /\ Len(RequestsOf("child")) = 2
    /\ faultsLeft < MaxFaults
    /\ \E a, b \in 1..Len(out) : reqlog[out[a].measure[1]].slice = 1
                                  /\ reqlog[out[b].measure[1]].slice = 2

\* a consumption over a parent without records has ended
C21_EmptyParent ==
    /\ status = "end"
    /\ Len(reqlog) = 1
    /\ reqlog[1].stream = "parent"
    /\ reqlog[1].size = 0
    /\ out = <<>>

====
